---- MODULE Spec2Model ----
(***************************************************************************)
(* pyautogit repository control screen (RepoControlManager) and the part   *)
(* of the settings screen that sets the default editor.                    *)
(*                                                                         *)
(* Text is a sequence of one-character strings, so that startswith, the    *)
(* slices [2:] and [3:] and splitlines are computed as Python computes     *)
(* them.  None is the one-element sequence <<"None">>, which no text       *)
(* equals.  The Command Runner (pyautogit.commands) is a black box: every  *)
(* call returns an (out, err) pair drawn from a small set.                 *)
(***************************************************************************)
EXTENDS Integers, Sequences, FiniteSets, TLC

VARIABLES
    branch_menu,         \* manager.branch_menu: [view_items, selected_item]
    remotes_menu,        \* manager.remotes_menu
    add_files_menu,      \* manager.add_files_menu
    commits_menu,        \* manager.commits_menu
    info_text_block,     \* manager.info_text_block: [text, title]
    commit_message_box,  \* manager.commit_message_box text
    new_branch_textbox,  \* manager.new_branch_textbox text
    credentials,         \* manager.credentials: <<>> or <<user, password>>
    default_editor,      \* manager.default_editor
    message,             \* RepoControlManager.message
    status,              \* RepoControlManager.status
    utility_var,         \* RepoControlManager.utility_var
    popup,               \* the popup the toolkit displays (modal), or NoPopup
    post_input_callback, \* manager.post_input_callback: what follows the credentials
    thread,              \* the long operation's thread: "none", "running",
                         \* "finished" (its callback is due), "died"
    pending_op,          \* the push or pull in progress: [kind, prompts, runs, done]
    handler,             \* the handler that ran last; "idle" in the event loop
    typed,               \* the text the user gave that handler, None if none
    calls,               \* Command Runner calls made by that handler, with their
                         \* results, in order
    popups,              \* popups shown by that handler, in order
    mutations,           \* <<widget, context>> pairs of that handler's widget writes
    refreshes,           \* [remote, selected_file, done] of its refresh_git_status calls
    crashed              \* an exception left the handler unhandled

vars == <<branch_menu, remotes_menu, add_files_menu, commits_menu,
          info_text_block, commit_message_box, new_branch_textbox,
          credentials, default_editor, message, status, utility_var,
          popup, post_input_callback, thread, pending_op, handler, typed,
          calls, popups, mutations, refreshes, crashed>>

----------------------------------------------------------------------------
(* Bounds *)

\* The longest list the Command Runner returns for remotes and changed files.
MaxItems == 3

----------------------------------------------------------------------------
(* Text *)

None == <<"None">>

NL == "\n"

\* str.splitlines(): the lines between newlines; no line after a final newline.
RECURSIVE SplitFrom(_, _, _)
SplitFrom(s, i, cur) ==
    IF i > Len(s) THEN (IF cur = <<>> THEN <<>> ELSE <<cur>>)
    ELSE IF s[i] = NL THEN <<cur>> \o SplitFrom(s, i + 1, <<>>)
    ELSE SplitFrom(s, i + 1, Append(cur, s[i]))

splitlines(s) == SplitFrom(s, 1, <<>>)

\* "\n".join(lines), the text the Command Runner returns for these lines.
RECURSIVE JoinLines(_)
JoinLines(lines) ==
    IF lines = <<>> THEN <<>>
    ELSE IF Len(lines) = 1 THEN lines[1]
    ELSE lines[1] \o <<NL>> \o JoinLines(Tail(lines))

\* s.startswith(c) for a one-character c
startswith(s, c) == Len(s) > 0 /\ s[1] = c

\* s[n:]
SliceFrom(s, n) == SubSeq(s, n + 1, Len(s))

\* 'fmt'.format(*args)
Format(fmt, args) == [fmt |-> fmt, args |-> args]

Plain(fmt) == Format(fmt, <<>>)

----------------------------------------------------------------------------
(* What the Command Runner can return *)

StatusCodes == {-1, 0, 1}

Result(out, err) == [out |-> out, err |-> err]

ErrText == <<"E">>

Digits == <<"1", "2", "3", "4", "5", "6", "7", "8", "9">>

RemoteLine(i) == <<"r", Digits[i]>>

StatusPrefix(i) ==
    IF i % 3 = 1 THEN <<" ", "M", " ">>
    ELSE IF i % 3 = 2 THEN <<"M", " ", " ">>
    ELSE <<"?", "?", " ">>

FileLine(i) == StatusPrefix(i) \o <<"f", Digits[i]>>

\* The lengths of the lists returned: empty, full, and one shorter than full.
ListLengths == {0, MaxItems - 1, MaxItems}

RemotesResults ==
    { Result(JoinLines([i \in 1..k |-> RemoteLine(i)]), 0) : k \in ListLengths }
        \cup { Result(ErrText, -1) }

StatusResults ==
    { Result(JoinLines([i \in 1..k |-> FileLine(i)]), 0) : k \in ListLengths }
        \cup { Result(ErrText, -1) }

CurM == <<"*", " ", "m">>
PlainM == <<" ", " ", "m">>
CurD == <<"*", " ", "d">>
PlainD == <<" ", " ", "d">>

BranchesResults ==
    { Result(<<>>, 0),
      Result(JoinLines(<<CurM, PlainD>>), 0),
      Result(JoinLines(<<PlainM, CurD>>), 0),
      Result(JoinLines(<<PlainM, PlainD>>), 0),
      Result(ErrText, -1) }

CommitsResults == { Result(<<"c">>, 0), Result(ErrText, -1) }

\* The four fetches of one refresh.
Fetches ==
    [branches : BranchesResults, remotes : RemotesResults,
     status : StatusResults, commits : CommitsResults]

\* The fetches of a refresh that ends another handler: the lists come back
\* full or the fetch fails.
Full(rs) == { r \in rs : r.err < 0 \/ Len(splitlines(r.out)) = MaxItems }

FollowUpFetches ==
    [branches : BranchesResults, remotes : Full(RemotesResults),
     status : Full(StatusResults), commits : CommitsResults]

TextResults == { Result(<<"o">>, s) : s \in StatusCodes }

----------------------------------------------------------------------------
(* The toolkit's scroll menu (py_cui ScrollMenu) *)

EmptyMenu == [view_items |-> <<>>, selected_item |-> 0]

\* ScrollMenu.get() raises IndexError when selected_item is out of range
GetRaises(m) == Len(m.view_items) > 0 /\ m.selected_item >= Len(m.view_items)

\* ScrollMenu.get(): the selected item, None when the menu is empty
MenuGet(m) ==
    IF Len(m.view_items) = 0 THEN None ELSE m.view_items[m.selected_item + 1]

NoPopup == [kind |-> "none", title |-> Plain(""), text |-> Plain(""), then |-> "none"]

Popup(kind, title, text, then) ==
    [kind |-> kind, title |-> title, text |-> text, then |-> then]

----------------------------------------------------------------------------
(* The state a handler works on: the variables, and what it has done so far *)

Cur(ctx) ==
    [branch_menu |-> branch_menu, remotes_menu |-> remotes_menu,
     add_files_menu |-> add_files_menu, commits_menu |-> commits_menu,
     info_text_block |-> info_text_block,
     commit_message_box |-> commit_message_box,
     new_branch_textbox |-> new_branch_textbox,
     credentials |-> credentials, default_editor |-> default_editor,
     message |-> message, status |-> status, utility_var |-> utility_var,
     popup |-> popup, post_input_callback |-> post_input_callback,
     thread |-> thread, pending_op |-> pending_op,
     typed |-> None, calls |-> <<>>, popups |-> <<>>, mutations |-> {},
     refreshes |-> <<>>, raised |-> FALSE, ctx |-> ctx]

\* A call of a pyautogit.commands function
Call(S, op, args, r) ==
    [S EXCEPT !.calls = Append(@, [op |-> op, args |-> args, ctx |-> S.ctx,
                                   out |-> r.out, err |-> r.err]),
              !.pending_op.runs =
                  IF op \in {"git_pull_branch", "git_push_to_branch"}
                  THEN @ + 1 ELSE @]

\* A write to a widget, on the context that runs the handler
Wrote(S, widget) == [S EXCEPT !.mutations = @ \cup {<<widget, S.ctx>>}]

\* An exception: nothing after it runs
Raise(S) == [S EXCEPT !.raised = TRUE]

Show(S, p) == [S EXCEPT !.popup = p, !.popups = Append(@, p)]

show_error_popup(S, title, text) == Show(S, Popup("error", title, text, "none"))

show_message_popup(S, title, text) == Show(S, Popup("message", title, text, "none"))

show_warning_popup(S, title, text) == Show(S, Popup("warning", title, text, "none"))

show_text_box_popup(S, title, then) ==
    Show(S, Popup("text_box", title, Plain(""), then))

\* menu.clear(); menu.add_item_list(out.splitlines())
Replaced(out) == [view_items |-> splitlines(out), selected_item |-> 0]

----------------------------------------------------------------------------
(* Refresh *)

get_repo_status_short(S, r) ==
    IF S.raised THEN S
    ELSE LET S1 == Call(S, "git_status_short", <<>>, r)
         IN  IF r.err < 0
             THEN show_error_popup(S1, Plain("Cannot get git status"),
                                   Format("{}", <<r.out>>))
             ELSE [Wrote(S1, "add_files_menu") EXCEPT
                      !.add_files_menu = Replaced(r.out)]

\* get_repo_remotes with remotes_menu.clear() moved before the status test
GetRepoRemotesClearsFirst(S, r) ==
    IF S.raised THEN S
    ELSE LET S1 == [Wrote(Call(S, "git_get_remotes", <<>>, r), "remotes_menu")
                       EXCEPT !.remotes_menu = EmptyMenu]
         IN  IF r.err < 0
             THEN show_error_popup(S1, Plain("Cannot get git remotes"),
                                   Format("{}", <<r.out>>))
             ELSE [S1 EXCEPT !.remotes_menu = Replaced(r.out)]

get_repo_remotes(S, r) ==
    IF S.raised THEN S
    ELSE LET S1 == Call(S, "git_get_remotes", <<>>, r)
         IN  IF r.err < 0
             THEN show_error_popup(S1, Plain("Cannot get git remotes"),
                                   Format("{}", <<r.out>>))
             ELSE [Wrote(S1, "remotes_menu") EXCEPT
                      !.remotes_menu = Replaced(r.out)]

\* The loop of get_repo_branches: the number of entries before the first one
\* that starts with '*', all of them when there is none.
RECURSIVE CountToMarker(_, _)
CountToMarker(items, selected_branch) ==
    IF selected_branch >= Len(items) THEN selected_branch
    ELSE IF startswith(items[selected_branch + 1], "*") THEN selected_branch
    ELSE CountToMarker(items, selected_branch + 1)

get_repo_branches(S, r) ==
    IF S.raised THEN S
    ELSE LET S1 == Call(S, "git_get_branches", <<>>, r)
         IN  IF r.err < 0
             THEN show_error_popup(S1, Plain("Cannot get git branches"),
                                   Format("{}", <<r.out>>))
             ELSE [Wrote(S1, "branch_menu") EXCEPT
                      !.branch_menu =
                          [Replaced(r.out) EXCEPT
                              !.selected_item =
                                  CountToMarker(splitlines(r.out), 0)]]

get_recent_commits(S, r) ==
    IF S.raised THEN S
    ELSE IF GetRaises(S.branch_menu) THEN Raise(S)
    ELSE IF MenuGet(S.branch_menu) = None THEN S
    ELSE LET branch == SliceFrom(MenuGet(S.branch_menu), 2)
             S1 == Call(S, "git_get_recent_commits", <<branch>>, r)
         IN  IF r.err < 0
             THEN show_error_popup(S1, Plain("Cannot get recent commits"),
                                   Format("{}", <<r.out>>))
             ELSE [Wrote(S1, "commits_menu") EXCEPT
                      !.commits_menu = Replaced(r.out)]

\* A restore that clamps an index that is out of range to the last entry
ClampSelection(S, remote, selected_file) ==
    LET Clamp(m, i) ==
            IF Len(m.view_items) > i THEN [m EXCEPT !.selected_item = i]
            ELSE IF Len(m.view_items) = 0 THEN m
            ELSE [m EXCEPT !.selected_item = Len(m.view_items) - 1]
    IN  [S EXCEPT !.remotes_menu = Clamp(@, remote),
                  !.add_files_menu = Clamp(@, selected_file)]

\* The last two statements of refresh_git_status
RestoreSelection(S, remote, selected_file) ==
    LET S1 == IF Len(S.remotes_menu.view_items) > remote
              THEN [S EXCEPT !.remotes_menu.selected_item = remote]
              ELSE S
    IN  IF Len(S1.add_files_menu.view_items) > selected_file
        THEN [S1 EXCEPT !.add_files_menu.selected_item = selected_file]
        ELSE S1

refresh_git_status(S, f) ==
    IF S.raised THEN S
    ELSE LET remote == S.remotes_menu.selected_item
             selected_file == S.add_files_menu.selected_item
             n == Len(S.refreshes) + 1
             S0 == [S EXCEPT !.refreshes =
                       Append(@, [remote |-> remote,
                                  selected_file |-> selected_file,
                                  fetched |-> f, done |-> FALSE])]
             S4 == get_recent_commits(
                       get_repo_status_short(
                           get_repo_remotes(
                               get_repo_branches(S0, f.branches), f.remotes),
                           f.status),
                       f.commits)
         IN  IF S4.raised THEN S4
             ELSE [RestoreSelection(S4, remote, selected_file) EXCEPT
                      !.refreshes[n].done = TRUE]

----------------------------------------------------------------------------
(* Remotes and changed files *)

\* add_remote that reads the name and leaves it in utility_var
AddRemoteKeepsName(S, remote_url, r, f) ==
    LET remote_name == S.utility_var
        S1 == Call(S, "git_add_remote", <<remote_name, remote_url>>, r)
    IN  IF r.err < 0
        THEN show_error_popup(S1, Plain("Failed to add remote"),
                              Format("{}", <<r.out>>))
        ELSE refresh_git_status(
                 [Wrote(S1, "remotes_menu") EXCEPT !.remotes_menu = EmptyMenu], f)

add_remote(S, remote_url, r, f) ==
    LET remote_name == S.utility_var
        S1 == Call([S EXCEPT !.utility_var = None], "git_add_remote",
                   <<remote_name, remote_url>>, r)
    IN  IF r.err < 0
        THEN show_error_popup(S1, Plain("Failed to add remote"),
                              Format("{}", <<r.out>>))
        ELSE refresh_git_status(
                 [Wrote(S1, "remotes_menu") EXCEPT !.remotes_menu = EmptyMenu], f)

ask_new_remote_url(S, remote_name) ==
    show_text_box_popup([S EXCEPT !.utility_var = remote_name],
                        Plain("Please enter the new remote url."), "add_remote")

ask_new_remote_name(S) ==
    show_text_box_popup(S, Plain("Please enter the new remote name."),
                        "ask_new_remote_url")

menu_choices == {"Add Remote", "Add All", "Push Branch", "Pull Branch"}

process_menu_selection(S, selection) ==
    IF selection = "Add Remote"
    THEN ask_new_remote_name(S)
    ELSE show_warning_popup(S, Plain("Warning - Not supported"),
                            Plain("This menu item has not yet been implemented."))

show_menu(S) ==
    Show(S, Popup("menu", Plain("Full Control Menu"), Plain(""),
                  "process_menu_selection"))

add_all_changes(S, r, f) ==
    LET S1 == Call(S, "git_add_all", <<>>, r)
    IN  IF r.err # 0
        THEN show_error_popup(S1, Plain("Git Add Error"), Format("{}", <<r.out>>))
        ELSE refresh_git_status(S1, f)

\* add_revert_file that stages only the entries that start with a blank
AddRevertFileStagesModifiedOnly(S, r, f) ==
    IF GetRaises(S.add_files_menu) THEN Raise(S)
    ELSE LET filename == MenuGet(S.add_files_menu)
         IN  IF filename = None THEN Raise(S)
             ELSE LET S1 == IF startswith(filename, " ")
                            THEN Call(S, "git_add_file", <<SliceFrom(filename, 3)>>, r)
                            ELSE Call(S, "git_reset_file", <<SliceFrom(filename, 3)>>, r)
                  IN  IF r.err < 0
                      THEN show_error_popup(
                               S1, Format("Cannot add/revert file {}", <<filename>>),
                               Format("{}", <<r.out>>))
                      ELSE refresh_git_status(S1, f)

\* add_revert_file with the test of add_all_changes: any status but 0 is an
\* error and nothing is refreshed.
AddRevertFileStrict(S, r, f) ==
    IF GetRaises(S.add_files_menu) THEN Raise(S)
    ELSE LET filename == MenuGet(S.add_files_menu)
         IN  IF filename = None THEN Raise(S)
             ELSE LET S1 == IF startswith(filename, " ") \/ startswith(filename, "?")
                            THEN Call(S, "git_add_file", <<SliceFrom(filename, 3)>>, r)
                            ELSE Call(S, "git_reset_file", <<SliceFrom(filename, 3)>>, r)
                  IN  IF r.err # 0
                      THEN show_error_popup(
                               S1, Format("Cannot add/revert file {}", <<filename>>),
                               Format("{}", <<r.out>>))
                      ELSE refresh_git_status(S1, f)

add_revert_file(S, r, f) ==
    IF GetRaises(S.add_files_menu) THEN Raise(S)
    ELSE LET filename == MenuGet(S.add_files_menu)
         IN  IF filename = None THEN Raise(S)   \* None has no startswith
             ELSE LET S1 == IF startswith(filename, " ") \/ startswith(filename, "?")
                            THEN Call(S, "git_add_file", <<SliceFrom(filename, 3)>>, r)
                            ELSE Call(S, "git_reset_file", <<SliceFrom(filename, 3)>>, r)
                  IN  IF r.err < 0
                      THEN show_error_popup(
                               S1, Format("Cannot add/revert file {}", <<filename>>),
                               Format("{}", <<r.out>>))
                      ELSE refresh_git_status(S1, f)

----------------------------------------------------------------------------
(* Queries shown in the info panel *)

SetInfo(S, text, title) ==
    [Wrote(S, "info_text_block") EXCEPT
        !.info_text_block = [text |-> text, title |-> title]]

\* show_remote_info with info_text_block.clear() moved before the status test
ShowRemoteInfoClearsFirst(S, r) ==
    IF GetRaises(S.branch_menu) THEN Raise(S)
    ELSE IF MenuGet(S.branch_menu) = None THEN S
    ELSE IF GetRaises(S.remotes_menu) THEN Raise(S)
    ELSE LET remote == MenuGet(S.remotes_menu)
             S1 == [Wrote(Call(S, "git_get_remote_info", <<remote>>, r),
                          "info_text_block")
                       EXCEPT !.info_text_block.text = <<>>]
         IN  IF r.err < 0
             THEN show_error_popup(S1, Plain("Cannot get remote info"),
                                   Format("{}", <<r.out>>))
             ELSE SetInfo(S1, r.out, Format("{} remote info", <<remote>>))

show_remote_info(S, r) ==
    IF GetRaises(S.branch_menu) THEN Raise(S)
    ELSE IF MenuGet(S.branch_menu) = None THEN S
    ELSE IF GetRaises(S.remotes_menu) THEN Raise(S)
    ELSE LET remote == MenuGet(S.remotes_menu)
             S1 == Call(S, "git_get_remote_info", <<remote>>, r)
         IN  IF r.err < 0
             THEN show_error_popup(S1, Plain("Cannot get remote info"),
                                   Format("{}", <<r.out>>))
             ELSE SetInfo(S1, r.out, Format("{} remote info", <<remote>>))

show_log(S, r) ==
    IF S.raised THEN S
    ELSE IF GetRaises(S.branch_menu) THEN Raise(S)
    ELSE IF MenuGet(S.branch_menu) = None THEN S
    ELSE LET branch == SliceFrom(MenuGet(S.branch_menu), 2)
             S1 == Call(S, "git_log", <<branch>>, r)
         IN  IF r.err < 0
             THEN show_error_popup(
                      S1, Format("Unable to show git log for branch {}.", <<branch>>),
                      Format("{}", <<r.out>>))
             ELSE SetInfo(S1, r.out, Plain("Git log"))

open_git_diff(S, r) ==
    LET S1 == Call(S, "git_diff", <<>>, r)
    IN  IF r.err < 0
        THEN show_error_popup(S1, Plain("Unable to show git diff repo."),
                              Format("{}", <<r.out>>))
        ELSE SetInfo(S1, r.out, Plain("Git Diff"))

open_git_diff_file(S, r) ==
    IF GetRaises(S.add_files_menu) THEN Raise(S)
    ELSE IF MenuGet(S.add_files_menu) = None THEN Raise(S)  \* None[3:]
    ELSE LET filename == SliceFrom(MenuGet(S.add_files_menu), 3)
             S1 == Call(S, "git_diff_file", <<filename>>, r)
         IN  IF r.err < 0
             THEN show_error_popup(
                      S1, Format("Unable to show git diff for file {}.", <<filename>>),
                      Format("{}", <<r.out>>))
             ELSE SetInfo(S1, r.out, Format("Git Diff - {}", <<filename>>))

\* os.getcwd()
current_path == <<"/", "w">>

\* open_editor that opens the joined path of the file
OpenEditorJoinsFile(S, file, r) ==
    IF S.default_editor = None
    THEN show_error_popup(S, Plain("Error"), Plain("No default editor specified."))
    ELSE LET target == IF file = None THEN current_path
                       ELSE current_path \o <<"/">> \o file
             S1 == Call(S, "open_default_editor", <<S.default_editor, target>>, r)
         IN  IF r.err # 0
             THEN show_error_popup(S1, Plain("Failed to open editor."),
                                   Format("{}", <<r.out>>))
             ELSE show_message_popup(
                      S1, Format("Opened {}", <<target>>),
                      Format("Opened {} editor in external window",
                             <<S.default_editor>>))

open_editor(S, file, r) ==
    IF S.default_editor = None
    THEN show_error_popup(S, Plain("Error"), Plain("No default editor specified."))
    ELSE LET S1 == Call(S, "open_default_editor", <<S.default_editor, current_path>>, r)
         IN  IF r.err # 0
             THEN show_error_popup(S1, Plain("Failed to open editor."),
                                   Format("{}", <<r.out>>))
             ELSE show_message_popup(
                      S1, Format("Opened {}", <<current_path>>),
                      Format("Opened {} editor in external window",
                             <<S.default_editor>>))

open_editor_file(S, r) ==
    IF GetRaises(S.add_files_menu) THEN Raise(S)
    ELSE IF MenuGet(S.add_files_menu) = None THEN Raise(S)  \* None[3:]
    ELSE open_editor(S, SliceFrom(MenuGet(S.add_files_menu), 3), r)

----------------------------------------------------------------------------
(* Commit, branches *)

commit(S, r, f, rl) ==
    LET commit_message == S.commit_message_box
        S1 == Call(S, "git_commit_changes", <<commit_message>>, r)
        S2 == IF r.err # 0
              THEN show_error_popup(S1, Plain("Commit failed!"),
                                    Format("{}", <<r.out>>))
              ELSE show_log(
                       refresh_git_status(
                           show_message_popup(
                               S1, Plain("Success"),
                               Format("Committed: {}", <<commit_message>>)),
                           f),
                       rl)
    IN  IF S2.raised THEN S2
        ELSE [Wrote(S2, "commit_message_box") EXCEPT !.commit_message_box = <<>>]

\* self.manager.show_error_popup, called on the manager and not on its root
manager_show_error_popup(S, title, text) == show_error_popup(S, title, text)

\* create_new_branch that stops at the error popup of a failed creation
CreateNewBranchStopsOnFailure(S, r, f) ==
    LET new_branch_name == S.new_branch_textbox
    IN  IF Len(new_branch_name) = 0
        THEN show_error_popup(S, Plain("ERROR - Illegal branchname"),
                              Plain("Please enter a valid branchname."))
        ELSE LET S1 == Call(S, "git_create_new_branch", <<new_branch_name>>, r)
             IN  IF r.err # 0
                 THEN manager_show_error_popup(
                          S1, Plain("Failed to create branch"),
                          Format("{}", <<r.out>>))
                 ELSE refresh_git_status(
                          [Wrote(S1, "new_branch_textbox") EXCEPT
                              !.new_branch_textbox = <<>>],
                          f)

create_new_branch(S, r, f) ==
    LET new_branch_name == S.new_branch_textbox
    IN  IF Len(new_branch_name) = 0
        THEN show_error_popup(S, Plain("ERROR - Illegal branchname"),
                              Plain("Please enter a valid branchname."))
        ELSE LET S1 == Call(S, "git_create_new_branch", <<new_branch_name>>, r)
                 S2 == IF r.err # 0
                       THEN manager_show_error_popup(
                                S1, Plain("Failed to create branch"),
                                Format("{}", <<r.out>>))
                       ELSE S1
             IN  refresh_git_status(
                     [Wrote(S2, "new_branch_textbox") EXCEPT
                         !.new_branch_textbox = <<>>],
                     f)

\* checkout_branch that refreshes only after a checkout that succeeded
CheckoutBranchRefreshesOnSuccess(S, r, f) ==
    IF GetRaises(S.branch_menu) THEN Raise(S)
    ELSE IF MenuGet(S.branch_menu) = None THEN S
    ELSE LET branch == SliceFrom(MenuGet(S.branch_menu), 2)
             S1 == Call(S, "git_checkout_branch", <<branch>>, r)
         IN  IF r.err # 0
             THEN show_error_popup(S1, Plain("Failed to checkout branch"),
                                   Format("{}", <<r.out>>))
             ELSE refresh_git_status(
                      show_message_popup(
                          S1, Plain("Checkout Successful"),
                          Format("Checked out branch {}", <<branch>>)),
                      f)

checkout_branch(S, r, f) ==
    IF GetRaises(S.branch_menu) THEN Raise(S)
    ELSE IF MenuGet(S.branch_menu) = None THEN S
    ELSE LET branch == SliceFrom(MenuGet(S.branch_menu), 2)
             S1 == Call(S, "git_checkout_branch", <<branch>>, r)
             S2 == IF r.err # 0
                   THEN show_error_popup(S1, Plain("Failed to checkout branch"),
                                         Format("{}", <<r.out>>))
                   ELSE show_message_popup(
                            S1, Plain("Checkout Successful"),
                            Format("Checked out branch {}", <<branch>>))
         IN  refresh_git_status(S2, f)

----------------------------------------------------------------------------
(* Credentials and the long operation (the manager, pyautogit/__init__.py) *)

NoPending == [kind |-> "none", prompts |-> 0, runs |-> 0, done |-> FALSE]

Started(S, kind) == [S EXCEPT !.pending_op = [NoPending EXCEPT !.kind = kind]]

Finished(S) == [S EXCEPT !.pending_op.done = TRUE]

were_credentials_entered(S) == Len(S.credentials) = 2

\* The first prompt of the pair; the operation asked for follows the second.
ask_credentials(S, callback) ==
    show_text_box_popup(
        [S EXCEPT !.post_input_callback = callback,
                  !.pending_op.prompts = @ + 1],
        Plain("Please enter your username"), "get_username")

get_username(S, user) ==
    show_text_box_popup([S EXCEPT !.credentials = <<user>>],
                        Plain("Please enter your password"), "get_password")

get_password(S, password) ==
    [S EXCEPT !.credentials = Append(@, password), !.post_input_callback = "none"]

\* The busy indicator is shown and work starts on a thread of its own.
perform_long_operation(S, title) ==
    [Show(S, Popup("loading", Plain(title), Plain(""), "show_push_result"))
        EXCEPT !.thread = "running"]

\* root.stop_loading_popup(): the indicator goes; the loop runs the callback.
stop_loading_popup(S) == [S EXCEPT !.popup = NoPopup, !.thread = "finished"]

----------------------------------------------------------------------------
(* Pull and push *)

pull_repo_branch(S, r, f) ==
    IF GetRaises(S.branch_menu) THEN Raise(S)
    ELSE IF MenuGet(S.branch_menu) = None THEN Raise(S)   \* None[2:]
    ELSE IF GetRaises(S.remotes_menu) THEN Raise(S)
    ELSE LET branch == SliceFrom(MenuGet(S.branch_menu), 2)
             remote == MenuGet(S.remotes_menu)
             S1 == Call(S, "git_pull_branch", <<branch, remote>> \o S.credentials, r)
             S2 == IF r.err # 0
                   THEN show_error_popup(S1, Plain("Failed to pull from remote"),
                                         Format("{}", <<r.out>>))
                   ELSE show_message_popup(
                            SetInfo(S1, r.out,
                                    Format("Git Pull Status - {} - {}",
                                           <<remote, branch>>)),
                            Plain("Pulled branch"),
                            Format("Successfully pulled branch {} from remote {}",
                                   <<branch, remote>>))
             S3 == refresh_git_status(S2, f)
         IN  IF S3.raised THEN S3 ELSE Finished(S3)

pull_repo_branch_cred(S, r, f) ==
    IF ~were_credentials_entered(S)
    THEN ask_credentials(Started(S, "pull"), "pull_repo_branch")
    ELSE pull_repo_branch(Started(S, "pull"), r, f)

push_repo_branch_cred(S) ==
    IF ~were_credentials_entered(S)
    THEN ask_credentials(Started(S, "push"), "perform_long_operation")
    ELSE perform_long_operation(Started(S, "push"), "Pushing")

\* The work of the long operation: it runs on the thread.
push_repo_branch(S, r, f) ==
    IF GetRaises(S.branch_menu) THEN Raise(S)
    ELSE IF MenuGet(S.branch_menu) = None THEN Raise(S)   \* None[2:]
    ELSE IF GetRaises(S.remotes_menu) THEN Raise(S)
    ELSE LET branch == SliceFrom(MenuGet(S.branch_menu), 2)
             remote == MenuGet(S.remotes_menu)
             S1 == Call(S, "git_push_to_branch", <<branch, remote>> \o S.credentials, r)
             S2 == [S1 EXCEPT !.message = r.out, !.status = r.err]
             S3 == refresh_git_status(S2, f)
         IN  IF S3.raised THEN S3
             ELSE stop_loading_popup(
                      [Wrote(S3, "info_text_block") EXCEPT
                          !.info_text_block.text = S3.message])

\* show_push_result that resets the scratch fields before it shows the popup
ShowPushResultResetsFirst(S) ==
    LET S0 == [S EXCEPT !.status = 0, !.message = <<>>]
        S1 == IF S0.status # 0
              THEN show_error_popup(S0, Plain("Unable to push to remote!"),
                                    Format("{}", <<S0.message>>))
              ELSE show_message_popup(S0, Plain("Pushed Successfully"),
                                      Format("{}", <<S0.message>>))
    IN  Finished(S1)

show_push_result(S) ==
    LET S1 == IF S.status # 0
              THEN show_error_popup(S, Plain("Unable to push to remote!"),
                                    Format("{}", <<S.message>>))
              ELSE show_message_popup(S, Plain("Pushed Successfully"),
                                      Format("{}", <<S.message>>))
    IN  Finished([S1 EXCEPT !.status = 0, !.message = <<>>])

----------------------------------------------------------------------------
(* Settings screen *)

update_default_editor(S, new_editor) == [S EXCEPT !.default_editor = new_editor]

----------------------------------------------------------------------------
(* The event loop *)

Init ==
    /\ branch_menu = EmptyMenu
    /\ remotes_menu = EmptyMenu
    /\ add_files_menu = EmptyMenu
    /\ commits_menu = EmptyMenu
    /\ info_text_block = [text |-> <<>>, title |-> Plain("Git Info")]
    /\ commit_message_box = <<>>
    /\ new_branch_textbox = <<>>
    /\ credentials = <<>>
    /\ default_editor = None
    /\ message = <<>>
    /\ status = 0
    /\ utility_var = None
    /\ popup = NoPopup
    /\ post_input_callback = "none"
    /\ thread = "none"
    /\ pending_op = NoPending
    /\ handler = "idle"
    /\ typed = None
    /\ calls = <<>>
    /\ popups = <<>>
    /\ mutations = {}
    /\ refreshes = <<>>
    /\ crashed = FALSE

\* The state a handler leaves.  An exception that leaves a handler of the UI
\* thread ends the program; one that leaves the work of the long operation
\* ends its thread.
Ends(h, S) ==
    /\ branch_menu' = S.branch_menu
    /\ remotes_menu' = S.remotes_menu
    /\ add_files_menu' = S.add_files_menu
    /\ commits_menu' = S.commits_menu
    /\ info_text_block' = S.info_text_block
    /\ commit_message_box' = S.commit_message_box
    /\ new_branch_textbox' = S.new_branch_textbox
    /\ credentials' = S.credentials
    /\ default_editor' = S.default_editor
    /\ message' = S.message
    /\ status' = S.status
    /\ utility_var' = S.utility_var
    /\ popup' = S.popup
    /\ post_input_callback' = S.post_input_callback
    /\ thread' = IF S.raised /\ S.ctx = "bg" THEN "died" ELSE S.thread
    /\ pending_op' = S.pending_op
    /\ handler' = h
    /\ typed' = S.typed
    /\ calls' = S.calls
    /\ popups' = S.popups
    /\ mutations' = S.mutations
    /\ refreshes' = S.refreshes
    /\ crashed' = (S.raised /\ S.ctx = "ui")

\* The loop waits for a key.
Waiting == handler = "idle" /\ ~crashed

\* No popup takes the key, and no callback of a long operation is due.
Idle == Waiting /\ popup.kind = "none" /\ thread \notin {"running", "finished"}

\* The text the user gives the handler
Entered(S, text) == [S EXCEPT !.typed = text]

\* The popup is closed before its command runs.
Closed(S) == [S EXCEPT !.popup = NoPopup]

\* The handler returned; the loop draws and waits for the next key.  A push
\* or pull that is over is forgotten.
ReturnToLoop ==
    /\ handler # "idle"
    /\ ~crashed
    /\ Ends("idle", [Cur("ui") EXCEPT
                        !.pending_op = IF @.done THEN NoPending ELSE @])

\* A key closes an error, message or warning popup.
ClosePopup ==
    /\ Waiting
    /\ popup.kind \in {"error", "message", "warning"}
    /\ Ends("idle", Closed(Cur("ui")))

\* ScrollMenu.scroll_up / scroll_down: the arrow keys move the selection
\* inside the list.
Scrolled(m, d) ==
    IF d = 1
    THEN (IF m.selected_item < Len(m.view_items) - 1
          THEN [m EXCEPT !.selected_item = @ + 1] ELSE m)
    ELSE (IF m.selected_item > 0
          THEN [m EXCEPT !.selected_item = @ - 1] ELSE m)

Scroll(w) ==
    /\ Idle
    /\ \E d \in {-1, 1} : Ends("idle", [Cur("ui") EXCEPT ![w] = Scrolled(@, d)])

ScrollBranches == Scroll("branch_menu")

ScrollRemotes == Scroll("remotes_menu")

ScrollFiles == Scroll("add_files_menu")

\* What the user types into a prompt or an input box
Typed == {<<"a">>, <<"b">>}

RefreshGitStatus ==
    /\ Idle
    /\ \E f \in Fetches : Ends("refresh_git_status", refresh_git_status(Cur("ui"), f))

ShowMenu ==
    /\ Idle
    /\ Ends("show_menu", show_menu(Cur("ui")))

SelectMenuItem ==
    /\ Waiting
    /\ popup.kind = "menu"
    /\ \E selection \in menu_choices :
          Ends("process_menu_selection",
               process_menu_selection(Closed(Cur("ui")), selection))

SubmitRemoteName ==
    /\ Waiting
    /\ popup.kind = "text_box" /\ popup.then = "ask_new_remote_url"
    /\ \E remote_name \in Typed :
          Ends("ask_new_remote_url", ask_new_remote_url(Entered(Closed(Cur("ui")), remote_name),
                                  remote_name))

SubmitRemoteUrl ==
    /\ Waiting
    /\ popup.kind = "text_box" /\ popup.then = "add_remote"
    /\ \E remote_url \in Typed, r \in TextResults, f \in FollowUpFetches :
          Ends("add_remote", add_remote(Entered(Closed(Cur("ui")), remote_url), remote_url, r, f))

AddAllChanges ==
    /\ Idle
    /\ \E r \in TextResults, f \in FollowUpFetches :
          Ends("add_all_changes", add_all_changes(Cur("ui"), r, f))

AddRevertFile ==
    /\ Idle
    /\ \E r \in TextResults, f \in FollowUpFetches :
          Ends("add_revert_file", add_revert_file(Cur("ui"), r, f))

ShowRemoteInfo ==
    /\ Idle
    /\ \E r \in TextResults : Ends("show_remote_info", show_remote_info(Cur("ui"), r))

ShowLog ==
    /\ Idle
    /\ \E r \in TextResults : Ends("show_log", show_log(Cur("ui"), r))

OpenGitDiff ==
    /\ Idle
    /\ \E r \in TextResults : Ends("open_git_diff", open_git_diff(Cur("ui"), r))

OpenGitDiffFile ==
    /\ Idle
    /\ \E r \in TextResults :
          Ends("open_git_diff_file", open_git_diff_file(Cur("ui"), r))

OpenEditor ==
    /\ Idle
    /\ \E r \in TextResults : Ends("open_editor", open_editor(Cur("ui"), None, r))

OpenEditorFile ==
    /\ Idle
    /\ \E r \in TextResults : Ends("open_editor_file", open_editor_file(Cur("ui"), r))

\* The user edits the commit message and presses Enter in the box.
Commit ==
    /\ Idle
    /\ \E text \in {<<>>, <<"a">>}, r \in TextResults, f \in FollowUpFetches,
          rl \in TextResults :
          Ends("commit",
               commit([Entered(Cur("ui"), text) EXCEPT !.commit_message_box = text],
                      r, f, rl))

\* The user edits the branch name and presses Enter in the box.
CreateNewBranch ==
    /\ Idle
    /\ \E text \in {<<>>, <<"a">>}, r \in TextResults, f \in FollowUpFetches :
          Ends("create_new_branch",
               create_new_branch(
                   [Entered(Cur("ui"), text) EXCEPT !.new_branch_textbox = text],
                   r, f))

CheckoutBranch ==
    /\ Idle
    /\ \E r \in TextResults, f \in FollowUpFetches :
          Ends("checkout_branch", checkout_branch(Cur("ui"), r, f))

PullRepoBranchCred ==
    /\ Idle
    /\ \E r \in TextResults, f \in FollowUpFetches :
          Ends("pull_repo_branch_cred", pull_repo_branch_cred(Cur("ui"), r, f))

PushRepoBranchCred ==
    /\ Idle
    /\ Ends("push_repo_branch_cred", push_repo_branch_cred(Cur("ui")))

SubmitUsername ==
    /\ Waiting
    /\ popup.kind = "text_box" /\ popup.then = "get_username"
    /\ \E user \in {<<"u">>} : Ends("get_username", get_username(Closed(Cur("ui")), user))

\* The second prompt is answered: the credentials are complete and the
\* operation asked for runs.
SubmitPasswordPull ==
    /\ Waiting
    /\ popup.kind = "text_box" /\ popup.then = "get_password"
    /\ post_input_callback = "pull_repo_branch"
    /\ \E password \in {<<"p">>}, r \in TextResults, f \in FollowUpFetches :
          Ends("get_password",
               pull_repo_branch(get_password(Closed(Cur("ui")), password), r, f))

SubmitPasswordPush ==
    /\ Waiting
    /\ popup.kind = "text_box" /\ popup.then = "get_password"
    /\ post_input_callback = "perform_long_operation"
    /\ \E password \in {<<"p">>} :
          Ends("get_password",
               perform_long_operation(get_password(Closed(Cur("ui")), password),
                                      "Pushing"))

\* The thread of the long operation runs its work.
PushWork ==
    /\ Waiting
    /\ thread = "running"
    /\ \E r \in TextResults, f \in FollowUpFetches :
          Ends("push_repo_branch", push_repo_branch(Cur("bg"), r, f))

\* The loop runs the callback of the long operation, on the UI thread.
PostLoading ==
    /\ Waiting
    /\ thread = "finished"
    /\ Ends("show_push_result", show_push_result([Cur("ui") EXCEPT !.thread = "none"]))

\* Settings screen: the prompt of ask_default_editor is answered.
UpdateDefaultEditor ==
    /\ Idle
    /\ \E new_editor \in Typed :
          Ends("update_default_editor", update_default_editor(Cur("ui"), new_editor))

NextPanels ==
    \/ ReturnToLoop \/ ClosePopup \/ RefreshGitStatus
    \/ ScrollBranches \/ ScrollRemotes \/ ScrollFiles
    \/ ShowMenu \/ SelectMenuItem \/ SubmitRemoteName \/ SubmitRemoteUrl
    \/ AddAllChanges \/ AddRevertFile

NextQueries ==
    \/ ReturnToLoop \/ ClosePopup \/ RefreshGitStatus
    \/ ScrollBranches \/ ScrollRemotes \/ ScrollFiles
    \/ ShowRemoteInfo \/ ShowLog \/ OpenGitDiff \/ OpenGitDiffFile
    \/ OpenEditor \/ OpenEditorFile \/ UpdateDefaultEditor

NextBranches ==
    \/ ReturnToLoop \/ ClosePopup \/ RefreshGitStatus
    \/ ScrollBranches \/ ScrollRemotes \/ ScrollFiles
    \/ Commit \/ CreateNewBranch \/ CheckoutBranch

NextPull ==
    \/ ReturnToLoop \/ ClosePopup \/ RefreshGitStatus
    \/ ScrollBranches \/ ScrollRemotes
    \/ PullRepoBranchCred \/ SubmitUsername \/ SubmitPasswordPull

NextPush ==
    \/ ReturnToLoop \/ ClosePopup \/ RefreshGitStatus
    \/ ScrollBranches \/ ScrollRemotes
    \/ PushRepoBranchCred \/ SubmitUsername \/ SubmitPasswordPush
    \/ PushWork \/ PostLoading

Next == NextPanels \/ NextQueries \/ NextBranches \/ NextPull \/ NextPush

SpecPanels == Init /\ [][NextPanels]_vars

SpecQueries == Init /\ [][NextQueries]_vars

SpecBranches == Init /\ [][NextBranches]_vars

SpecPull == Init /\ [][NextPull]_vars

SpecPush == Init /\ [][NextPush]_vars

Spec == Init /\ [][Next]_vars

----------------------------------------------------------------------------
(* Properties *)

\* The refresh_git_status call of the handler that ran last
LastRefresh == refreshes[Len(refreshes)]

Refreshed == refreshes # <<>>

MarkedAt(items) == { i \in 1..Len(items) : startswith(items[i], "*") }

\* The index of the first entry with the current marker, 0 without one
MarkerIndexOrZero(items) ==
    IF MarkedAt(items) = {} THEN 0
    ELSE (CHOOSE i \in MarkedAt(items) : \A j \in MarkedAt(items) : i <= j) - 1

\* C1: after a refresh whose branch fetch succeeded, the branch panel selects
\* the first returned entry that starts with '*', and index 0 when no
\* returned entry starts with '*'.
C1_BranchSelectionFollowsMarker ==
    Refreshed /\ LastRefresh.fetched.branches.err >= 0
        => branch_menu.selected_item =
               MarkerIndexOrZero(splitlines(LastRefresh.fetched.branches.out))

\* The index the claim of C2 expects: the prior one if still in range, else
\* the last valid one, nothing to select in an empty panel.
ClampedTo(prior, m) ==
    IF prior < Len(m.view_items) THEN m.selected_item = prior
    ELSE Len(m.view_items) = 0 \/ m.selected_item = Len(m.view_items) - 1

\* C2 as claimed: after a refresh_git_status call that returned, the remotes
\* panel and the changed-files panel select the index selected before the
\* call if it is smaller than the new item count, otherwise the last valid
\* index (or nothing when the panel is empty).
C2_SelectionRestoredOrClamped ==
    Refreshed /\ LastRefresh.done
        => /\ ClampedTo(LastRefresh.remote, remotes_menu)
           /\ ClampedTo(LastRefresh.selected_file, add_files_menu)

ResetTo(prior, m) ==
    m.selected_item = IF prior < Len(m.view_items) THEN prior ELSE 0

\* What a refresh that an exception ended before its restore step leaves
LeftByFetch(prior, m, fetch) ==
    m.selected_item = IF fetch.err < 0 THEN prior ELSE 0

\* C2 amended: after a refresh_git_status call that returned, each of the
\* two panels selects the index selected before the call if it is smaller
\* than the new item count, and index 0 otherwise (no clamping); a call that
\* an exception ended before the restore step leaves index 0 on a panel
\* whose fetch succeeded and the prior index on one whose fetch failed.
C2_SelectionRestoredOrReset ==
    Refreshed
        => IF LastRefresh.done
           THEN /\ ResetTo(LastRefresh.remote, remotes_menu)
                /\ ResetTo(LastRefresh.selected_file, add_files_menu)
           ELSE /\ LeftByFetch(LastRefresh.remote, remotes_menu,
                               LastRefresh.fetched.remotes)
                /\ LeftByFetch(LastRefresh.selected_file, add_files_menu,
                               LastRefresh.fetched.status)

\* C2 witness: a refresh returned with the remotes list shorter than the
\* index selected before it, and the selection is back on the first entry.
C2_Witness ==
    /\ Refreshed /\ LastRefresh.done
    /\ Len(remotes_menu.view_items) > 1
    /\ LastRefresh.remote >= Len(remotes_menu.view_items)
    /\ remotes_menu.selected_item = 0

----------------------------------------------------------------------------

\* The credentials of the manager are complete.
CredentialsEntered == Len(credentials) = 2

\* The callback of the prompt pair has been run and has ended.
PromptCallbackOver ==
    /\ CredentialsEntered
    /\ \/ pending_op.kind = "pull"
       \/ pending_op.kind = "push" /\ thread # "running"

\* C3: when push or pull is invoked while no credentials are entered, exactly
\* one credential prompt sequence is shown, the push/pull command does not run
\* before the prompt is completed, and once the prompt is completed and the
\* operation it leads to has ended the command has run exactly once.
C3_OnePromptThenOneRun ==
    pending_op.prompts > 0
        => /\ pending_op.prompts = 1
           /\ pending_op.runs <= 1
           /\ pending_op.runs > 0 => CredentialsEntered
           /\ PromptCallbackOver => pending_op.runs = 1

\* C4: every write to a widget (the four list panels, the info panel, the
\* input boxes) is made on the UI thread, never on the thread of the long
\* operation.
C4_PanelsWrittenOnUIContextOnly ==
    \A m \in mutations : m[2] = "ui"

\* add_revert_file has called git_add_file or git_reset_file
AddRevertCalled == handler = "add_revert_file" /\ calls # <<>>

\* C5 as claimed: add_revert_file refreshes after the stage or unstage command
\* for every status the command returns, negative, zero or positive.
C5_RefreshForEveryStatus ==
    AddRevertCalled => Len(refreshes) = 1

\* C5 as amended: add_revert_file refreshes once after the command when the
\* status is zero or positive; on a negative status it shows one error popup
\* and does not refresh.
C5_RefreshUnlessNegative ==
    AddRevertCalled
        => IF calls[1].err >= 0
           THEN Len(refreshes) = 1
           ELSE /\ refreshes = <<>>
                /\ Len(calls) = 1
                /\ Len(popups) = 1 /\ popups[1].kind = "error"

\* add_revert_file has refreshed after a command that reported a positive status
C5_Witness ==
    /\ AddRevertCalled
    /\ calls[1].err > 0
    /\ Len(refreshes) = 1 /\ refreshes[1].done

\* C6: when git_add_remote or git_add_all returns a non-zero status, positive
\* ones included, no refresh is performed and the remotes panel is not written;
\* a refresh happens only on status 0.
C6_NoRefreshOnFailure ==
    handler \in {"add_remote", "add_all_changes"} /\ calls # <<>>
        => /\ refreshes # <<>> <=> calls[1].err = 0
           /\ calls[1].err # 0 => <<"remotes_menu", "ui">> \notin mutations

QueryHandlers ==
    {"show_remote_info", "show_log", "open_git_diff", "open_git_diff_file"}

\* C8: a step of show_remote_info, show_log, open_git_diff or
\* open_git_diff_file whose command returns a negative status leaves the text
\* and title of the info panel and the four list panels as they were before
\* the step, and shows exactly one popup, an error popup.
C8_FailedQueryLeavesPanels ==
    [][ handler' \in QueryHandlers /\ calls' # <<>> /\ calls'[1].err < 0
            => /\ info_text_block' = info_text_block
               /\ branch_menu' = branch_menu
               /\ remotes_menu' = remotes_menu
               /\ add_files_menu' = add_files_menu
               /\ commits_menu' = commits_menu
               /\ Len(popups') = 1 /\ popups'[1].kind = "error"
               /\ popup' = popups'[1] ]_vars

\* A failed remote-info query on a dashboard whose info panel shows the text
\* of an earlier query
C8_Witness ==
    /\ handler = "show_remote_info"
    /\ calls # <<>> /\ calls[1].err < 0
    /\ info_text_block.text # <<>>
    /\ Len(remotes_menu.view_items) > 0
    /\ popup.kind = "error"

\* C9: after every commit attempt the commit message box is empty, whatever
\* status git_commit_changes returned.
C9_CommitBoxEmptyAfterCommit ==
    handler = "commit" => commit_message_box = <<>>

\* The panels whose selection the handler h uses
PanelsUsed(h) ==
    CASE h \in {"checkout_branch", "show_log"} -> {"branch_menu"}
      [] h \in {"add_revert_file", "open_git_diff_file", "open_editor_file"}
             -> {"add_files_menu"}
      [] h \in {"show_remote_info", "push_repo_branch", "pull_repo_branch_cred",
                "pull_repo_branch"}
             -> {"branch_menu", "remotes_menu"}
      [] OTHER -> {}

IsEmpty(w) ==
    CASE w = "branch_menu" -> branch_menu.view_items = <<>>
      [] w = "remotes_menu" -> remotes_menu.view_items = <<>>
      [] w = "add_files_menu" -> add_files_menu.view_items = <<>>

\* The handler a step runs that uses a selection: the callback of the
\* password prompt of a pull is pull_repo_branch.
SelectionHandler(h) ==
    IF h = "get_password" /\ post_input_callback = "pull_repo_branch"
    THEN "pull_repo_branch" ELSE h

\* C10: a step of a handler that uses a panel selection, taken while a panel
\* it uses is empty, passes no missing value (None) to a command and raises no
\* exception: neither the UI thread nor the thread of the long operation ends.
C10_SelectionCheckedBeforeUse ==
    [][ (\E w \in PanelsUsed(SelectionHandler(handler')) : IsEmpty(w))
            => /\ ~crashed'
               /\ thread' # "died"
               /\ \A i \in 1..Len(calls') :
                     \A j \in 1..Len(calls'[i].args) : calls'[i].args[j] # None ]_vars

----------------------------------------------------------------------------

NetworkCommands == {"git_pull_branch", "git_push_to_branch"}

\* C11: every call of git_pull_branch or git_push_to_branch is made by the work
\* of a long operation, on its thread, and never on the UI thread.
C11_NetworkCallsOnWorkerThread ==
    \A i \in 1..Len(calls) :
        calls[i].op \in NetworkCommands => calls[i].ctx = "bg"

InRange(m) ==
    \/ m.view_items = <<>>
    \/ 0 <= m.selected_item /\ m.selected_item < Len(m.view_items)

\* C12: in every reachable state each list panel (branches, remotes, changed
\* files, commits) has a selected index inside its items, or has no items.
C12_SelectedIndexInRange ==
    /\ InRange(branch_menu)
    /\ InRange(remotes_menu)
    /\ InRange(add_files_menu)
    /\ InRange(commits_menu)

FetchOrder ==
    <<"git_get_branches", "git_get_remotes", "git_status_short",
      "git_get_recent_commits">>

\* An error popup with the title t has been shown by the handler
ErrorShown(t) ==
    \E i \in 1..Len(popups) : popups[i].kind = "error" /\ popups[i].title = Plain(t)

\* The panel m was fetched with the result r: on a negative status it keeps
\* the items it had (was) and its error popup is shown, otherwise it
\* holds the returned lines in the returned order.
FetchedInto(m, was, r, shown) ==
    IF r.err < 0
    THEN m.view_items = was.view_items /\ shown
    ELSE m.view_items = splitlines(r.out)

\* C13: a step of refresh_git_status calls the four fetches in the order
\* branches, remotes, changed files, commits, whatever each of them returns;
\* a panel whose fetch returns a negative status keeps its items and an error
\* popup naming it is shown, and a panel whose fetch succeeds holds the
\* returned lines in returned order.
C13_RefreshFetchesAllInOrder ==
    [][ handler' = "refresh_git_status"
            => LET f == refreshes'[1].fetched
               IN  /\ [i \in 1..Len(calls') |-> calls'[i].op] = FetchOrder
                   /\ FetchedInto(branch_menu', branch_menu, f.branches,
                                  ErrorShown("Cannot get git branches")')
                   /\ FetchedInto(remotes_menu', remotes_menu, f.remotes,
                                  ErrorShown("Cannot get git remotes")')
                   /\ FetchedInto(add_files_menu', add_files_menu, f.status,
                                  ErrorShown("Cannot get git status")')
                   /\ FetchedInto(commits_menu', commits_menu, f.commits,
                                  ErrorShown("Cannot get recent commits")') ]_vars


\* C13 as amended: a step of refresh_git_status always calls the fetches of
\* branches, remotes and changed files, in this order, and treats each as
\* claimed.  The commits are fetched fourth, and treated the same way, only
\* when the branch panel then has a selected entry: with an empty branch panel
\* the fetch is skipped and the commits panel keeps its items, and with a
\* selected index outside the branch list the step ends with an exception
\* before the fetch.
C13_RefreshFetchesCommitsOfSelection ==
    [][ handler' = "refresh_git_status"
            => LET f == refreshes'[1].fetched
                   ops == [i \in 1..Len(calls') |-> calls'[i].op]
               IN  /\ FetchedInto(branch_menu', branch_menu, f.branches,
                                  ErrorShown("Cannot get git branches")')
                   /\ FetchedInto(remotes_menu', remotes_menu, f.remotes,
                                  ErrorShown("Cannot get git remotes")')
                   /\ FetchedInto(add_files_menu', add_files_menu, f.status,
                                  ErrorShown("Cannot get git status")')
                   /\ IF branch_menu'.view_items = <<>>
                      THEN /\ ops = SubSeq(FetchOrder, 1, 3)
                           /\ commits_menu' = commits_menu
                           /\ ~crashed'
                      ELSE IF ~InRange(branch_menu')
                      THEN /\ ops = SubSeq(FetchOrder, 1, 3)
                           /\ commits_menu' = commits_menu
                           /\ crashed'
                      ELSE /\ ops = FetchOrder
                           /\ FetchedInto(commits_menu', commits_menu, f.commits,
                                          ErrorShown("Cannot get recent commits")')
                           /\ ~crashed' ]_vars

\* A refresh whose remotes fetch failed: the remotes panel still shows its
\* items, and the changed files and the commits after it were fetched and
\* replaced.
C13_Witness ==
    /\ handler = "refresh_git_status"
    /\ refreshes[1].fetched.remotes.err < 0
    /\ remotes_menu.view_items # <<>>
    /\ Len(calls) = 4
    /\ refreshes[1].fetched.status.err = 0 /\ add_files_menu.view_items # <<>>
    /\ refreshes[1].fetched.commits.err = 0 /\ commits_menu.view_items # <<>>


----------------------------------------------------------------------------

\* The error popups of the fetches of a refresh
FetchErrorTitles ==
    { Plain("Cannot get git branches"), Plain("Cannot get git remotes"),
      Plain("Cannot get git status"), Plain("Cannot get recent commits") }

\* All popups shown by the handler from the n-th on are error popups of fetches
OnlyFetchErrorsFrom(n) ==
    \A i \in n..Len(popups) :
        popups[i].kind = "error" /\ popups[i].title \in FetchErrorTitles

\* The work of a push has run to its end: the command was called, one refresh
\* ran to its end, the info panel and the scratch fields hold the output, and
\* no popup is left on the screen.
PushWorkDone ==
    /\ Len(calls) >= 1 /\ calls[1].op = "git_push_to_branch"
    /\ Len(refreshes) = 1 /\ refreshes[1].done
    /\ info_text_block.text = calls[1].out
    /\ message = calls[1].out /\ status = calls[1].err
    /\ OnlyFetchErrorsFrom(1)
    /\ popup = NoPopup

\* C14: a push that completes has, for every status of the command, refreshed
\* and set the info panel to the output of the command when its work ends;
\* its callback show_push_result then shows exactly one popup, a message popup
\* for status 0 and an error popup otherwise, with that output as its text,
\* refreshes nothing more, and leaves status 0 and an empty message.
C14_PushCompletionSequence ==
    [][ /\ handler' = "push_repo_branch" /\ thread' = "finished" => PushWorkDone'
        /\ handler' = "show_push_result"
               => /\ thread = "finished"
                  /\ info_text_block.text = message
                  /\ info_text_block' = info_text_block
                  /\ refreshes' = <<>> /\ calls' = <<>>
                  /\ Len(popups') = 1
                  /\ popups'[1].kind = IF status = 0 THEN "message" ELSE "error"
                  /\ popups'[1].text = Format("{}", <<message>>)
                  /\ popup' = popups'[1]
                  /\ status' = 0 /\ message' = <<>> ]_vars

\* The callback of a push that failed has shown its error popup with the
\* output of the command, which the info panel shows too.
C14_Witness ==
    /\ handler = "show_push_result"
    /\ Len(popups) = 1 /\ popups[1].kind = "error"
    /\ popups[1].text = Format("{}", <<info_text_block.text>>)
    /\ info_text_block.text # <<>>
    /\ status = 0 /\ message = <<>>

\* The text that follows the first n characters of an entry
After(entry, n) == SubSeq(entry, n + 1, Len(entry))

\* C15: a step of checkout_branch with an empty branch panel calls no command,
\* shows no popup and does not refresh; with a branch selected it calls
\* git_checkout_branch with the entry less its first 2 characters, shows one
\* popup for the result first (a message popup for status 0, an error popup
\* otherwise), and makes one refresh for every status, whose failed fetches
\* are the only further popups.
C15_CheckoutSelectedBranch ==
    [][ handler' = "checkout_branch"
            => IF branch_menu.view_items = <<>>
               THEN calls' = <<>> /\ popups' = <<>> /\ refreshes' = <<>>
                    /\ mutations' = {} /\ ~crashed'
               ELSE InRange(branch_menu)
                    => /\ calls'[1].op = "git_checkout_branch"
                       /\ calls'[1].args = <<After(MenuGet(branch_menu), 2)>>
                       /\ \A i \in 2..Len(calls') :
                             calls'[i].op # "git_checkout_branch"
                       /\ Len(popups') >= 1
                       /\ popups'[1] =
                              IF calls'[1].err = 0
                              THEN Popup("message", Plain("Checkout Successful"),
                                         Format("Checked out branch {}",
                                                <<After(MenuGet(branch_menu), 2)>>),
                                         "none")
                              ELSE Popup("error", Plain("Failed to checkout branch"),
                                         Format("{}", <<calls'[1].out>>), "none")
                       /\ OnlyFetchErrorsFrom(2)'
                       /\ Len(refreshes') = 1 ]_vars

\* A checkout that failed with a positive status, followed by its refresh
C15_Witness ==
    /\ handler = "checkout_branch"
    /\ calls # <<>> /\ calls[1].err > 0
    /\ popups[1].kind = "error"
    /\ Len(refreshes) = 1 /\ refreshes[1].done

\* The change kind of a line of git status --short, from its two-letter code
Untracked(entry) == entry[1] = "?" /\ entry[2] = "?"

ModifiedUnstaged(entry) == entry[1] = " " /\ entry[2] # " "

StageCommands == {"git_add_file", "git_reset_file"}

\* C16: a step of add_revert_file on a selected entry calls git_add_file when
\* the entry is untracked or modified and unstaged and git_reset_file
\* otherwise, with the entry less its first 3 characters as the path, and it
\* calls exactly one of the two, once.
C16_StageOrUnstageByChangeKind ==
    [][ handler' = "add_revert_file" /\ add_files_menu.view_items # <<>>
            => LET entry == MenuGet(add_files_menu)
               IN  /\ Len(calls') >= 1
                   /\ calls'[1].op =
                          IF Untracked(entry) \/ ModifiedUnstaged(entry)
                          THEN "git_add_file" ELSE "git_reset_file"
                   /\ calls'[1].args = <<After(entry, 3)>>
                   /\ \A i \in 2..Len(calls') : calls'[i].op \notin StageCommands
       ]_vars

\* An untracked entry has been staged.
C16_Witness ==
    /\ handler = "add_revert_file"
    /\ calls # <<>>
    /\ calls[1].op = "git_add_file"
    /\ \E i \in 1..MaxItems : calls[1].args = <<<<"f", Digits[i]>>>> /\ i % 3 = 0


----------------------------------------------------------------------------

\* The prompt for the url of the new remote is on the screen.
UrlPromptShown == popup.kind = "text_box" /\ popup.then = "add_remote"

\* utility_var holds a name exactly while the url prompt waits for its answer.
NameHeldForUrlPrompt == utility_var # None <=> UrlPromptShown

\* git_add_remote is called by add_remote only, once.
AddRemoteCalledByUrlSubmit ==
    \A i \in 1..Len(calls) :
        calls[i].op = "git_add_remote" => handler = "add_remote" /\ i = 1

\* C17: the name prompt's answer is stored in utility_var and followed by the
\* url prompt; git_add_remote is called only by the step that answers the url
\* prompt, with (the stored name, the url typed), and that step leaves
\* utility_var None; utility_var holds a name only while the url prompt waits.
C17_AddRemoteTwoPromptChain ==
    [][ /\ handler' = "ask_new_remote_url"
               => utility_var' = typed' /\ typed' # None /\ calls' = <<>>
        /\ handler' = "add_remote"
               => /\ UrlPromptShown
                  /\ calls'[1].op = "git_add_remote"
                  /\ calls'[1].args = <<utility_var, typed'>>
                  /\ utility_var # None
                  /\ utility_var' = None
        /\ AddRemoteCalledByUrlSubmit'
        /\ NameHeldForUrlPrompt' ]_vars

\* A remote has been added with a name and a url that differ, and the slot is
\* empty again.
C17_Witness ==
    /\ handler = "add_remote"
    /\ calls[1].op = "git_add_remote"
    /\ calls[1].args = << <<"a">>, <<"b">> >>
    /\ utility_var = None


----------------------------------------------------------------------------

AllFetchesSucceed(f) ==
    /\ f.branches.err >= 0 /\ f.remotes.err >= 0
    /\ f.status.err >= 0 /\ f.commits.err >= 0

\* C18: after a step of refresh_git_status in which every fetch succeeds and
\* branches are returned, the branch panel selects one of them, the recent
\* commits were asked for that entry less its 2-character prefix, and the
\* commits panel holds the lines returned for it.
C18_CommitsOfSelectedBranch ==
    ( /\ handler = "refresh_git_status"
      /\ AllFetchesSucceed(refreshes[1].fetched)
      /\ branch_menu.view_items # <<>> )
        => /\ InRange(branch_menu)
           /\ \E i \in 1..Len(calls) :
                 /\ calls[i].op = "git_get_recent_commits"
                 /\ calls[i].args = <<After(MenuGet(branch_menu), 2)>>
           /\ commits_menu.view_items =
                  splitlines(refreshes[1].fetched.commits.out)


----------------------------------------------------------------------------

\* C19: every push whose work was started completes.  The callback runs only
\* when the work has ended with the busy indicator dismissed, and work that
\* has ended is never run again, so the claim requires of every end of the
\* work that the indicator is gone and the callback is due (and of every end
\* of the callback that nothing of the push is left).
C19_PushWorkEndsInCompletion ==
    /\ handler = "push_repo_branch"
           => thread = "finished" /\ popup.kind # "loading"
    /\ handler = "show_push_result"
           => thread = "none" /\ popup.kind # "loading" /\ pending_op.done
    /\ thread # "died"

EditorHandlers == {"open_editor", "open_editor_file"}

\* C20: open_editor, called with or without a selected file, makes no call and
\* shows one error popup when no editor is configured; otherwise it makes
\* exactly one call of open_default_editor with the editor and the current
\* working directory and shows one popup, an error popup for a non-zero
\* status and a message popup otherwise.
C20_EditorOpensWorkingDirectory ==
    handler \in EditorHandlers /\ ~crashed
        => /\ Len(popups) = 1
           /\ IF default_editor = None
              THEN calls = <<>> /\ popups[1].kind = "error"
              ELSE /\ Len(calls) = 1
                   /\ calls[1].op = "open_default_editor"
                   /\ calls[1].args = <<default_editor, current_path>>
                   /\ popups[1].kind =
                          IF calls[1].err # 0 THEN "error" ELSE "message"

\* The editor was opened from a selected file, and the directory was its target.
C20_Witness ==
    /\ handler = "open_editor_file"
    /\ calls # <<>> /\ calls[1].err = 0
    /\ calls[1].args[2] = current_path
    /\ popup.kind = "message"


============================================================================
